---- MODULE Spec2Model ----
(***************************************************************************)
(* Budget-gated usage tracking and agent orchestration of the portfolio    *)
(* assistant: the JSON usage ledger (agent/usage_tracker.py), the token     *)
(* counting callback (agent/llm_client.py) and PortfolioAgent.query with    *)
(* its AgentExecutor loop (agent/agent.py).                                 *)
(*                                                                         *)
(* Money is counted in units of 5e-9 dollars, so that every rate of the     *)
(* cost table and the 1.3 tokens-per-word estimate are whole numbers:       *)
(* input tokens are kept in tenths of a token (the callback's float         *)
(* input_tokens), a rate "per tenth" is the table's rate / 10.              *)
(***************************************************************************)
EXTENDS Integers, Sequences, FiniteSets, TLC

\* ---------------------------------------------------------------- bounds
MaxLedger == 2      \* records the ledger file may hold in the model
MaxDay == 1         \* last calendar day the clock reaches

\* ------------------------------------------------------- program constants
MaxIterations == 5              \* AgentExecutor(max_iterations=5)
DefaultEstimate == 2000000      \* can_make_request(estimated_cost=0.01)
TenthsPerWord == 13             \* len(prompt.split()) * 1.3
DayParts == 2                   \* instants of one calendar day a timestamp tells apart
LLM_MODEL == "openai/gpt-3.5-turbo"

Sessions == {1, 2}
QueryTypes == {"general", "test"}
Words == {1000}                 \* words of one prompt
PromptTokens == {1300}          \* token_usage['prompt_tokens']
CompletionTokens == {4025}      \* token_usage['completion_tokens']
UsageKeys == {"prompt_tokens", "completion_tokens"}
BudgetLimits == {3000000}
DailyLimits == {2500000}
Estimates == {0, 500000, 1000000, 2000000}
ParseKinds == {"final", "tool", "unknown_tool", "malformed"}
\* response.llm_output: falsy (has = FALSE), or a dict whose token_usage
\* holds the keys `keys`
Usages ==
  [has : {FALSE}, keys : {{}}, prompt_tokens : {0}, completion_tokens : {0}] \cup
  [has : {TRUE}, keys : SUBSET UsageKeys, prompt_tokens : PromptTokens,
   completion_tokens : CompletionTokens]

VARIABLES
  exists,        \* json_path.exists()
  ledger,        \* the list stored in the JSON file
  today,         \* datetime.now().date()
  budget_limit,  \* UsageTracker.budget_limit
  daily_limit,   \* UsageTracker.daily_limit
  pc,            \* where each session is
  query_type,    \* query_type given to query()
  iterations,    \* AgentExecutor's iteration counter
  cb_in,         \* TokenCounterCallback.input_tokens, in tenths
  cb_out,        \* TokenCounterCallback.output_tokens
  data,          \* record_usage's local `data`
  rec,           \* record_usage's local `record`
  total_spent,   \* can_make_request's local total_spent
  daily_spent,   \* can_make_request's local daily_spent
  resp,          \* how the agent parses the last model response
  observation,   \* what the next model call is fed
  result,        \* how query() ended
  check,         \* the last direct can_make_request call and its answer
  status,        \* the dict the last direct get_budget_status returned
  cost,          \* the last direct _calculate_cost call and its result
  history,       \* the list the last direct get_usage_history returned
  credentials,   \* the settings of config that are not empty
  torn,          \* usage.json was truncated by a write that did not finish
  portfolio,     \* the positions of the Portfolio built so far
  built,         \* the last Position(...) call and how it ended
  model_calls,   \* history: model calls started in this query
  completed,     \* history: model calls completed in this query
  appended,      \* history: every record a completed record_usage has written
  writes,        \* history: ledger writes made by this query
  q_ledger,      \* history: the persisted ledger when the query began
  only_malformed, \* history: every response of this query so far was malformed
  tool_raised    \* history: a tool of this query raised

env == <<exists, ledger, today, budget_limit, daily_limit>>
hist == <<model_calls, completed, appended, writes, q_ledger, only_malformed,
         tool_raised>>
loc == <<query_type, iterations, cb_in, cb_out, data, rec, total_spent,
         daily_spent, resp, observation, result>>
aux == <<history, credentials, torn, portfolio, built>>
calls == <<status, cost, aux>>
vars == <<env, pc, loc, check, calls, hist>>

\* ------------------------------------------------------------- the ledger
RECURSIVE SumCost(_)
SumCost(s) == IF s = <<>> THEN 0 ELSE s[1].cost + SumCost(Tail(s))

\* a timestamp counts the parts of a day since day 0: its calendar date is
\* datetime.fromisoformat(record['timestamp']).date()
\* mutant: the timestamp itself is compared with the date
DateOf_Raw(ts) == ts

DateOf(ts) == ts \div DayParts

\* datetime.now(): a session reads the clock in the first part of its day
Now == today * DayParts

\* mutant: the records of every date count towards the day
DailyCost_AllDays(s, d) == SumCost(s)

RECURSIVE DailyCost(_, _)
DailyCost(s, d) ==
  IF s = <<>> THEN 0
  ELSE (IF DateOf(s[1].timestamp) = d THEN s[1].cost ELSE 0)
       + DailyCost(Tail(s), d)

\* _load_data: a missing file reads as the empty list
LoadData == IF exists THEN ledger ELSE <<>>

GetTotalSpent == SumCost(LoadData)

GetDailySpent == DailyCost(LoadData, today)

\* mutant: the limits reject on >= instead of >
CanMakeRequest_Ge(total, daily, e) ==
  IF total + e >= budget_limit
  THEN [allowed |-> FALSE, reason |-> "Budget limit reached",
        remaining |-> budget_limit - total]
  ELSE IF daily + e >= daily_limit
  THEN [allowed |-> FALSE, reason |-> "Daily limit reached",
        remaining |-> daily_limit - daily]
  ELSE [allowed |-> TRUE, reason |-> "OK", remaining |-> 0]

\* mutant: the daily limit is not looked at
CanMakeRequest_NoDaily(total, daily, e) ==
  IF total + e > budget_limit
  THEN [allowed |-> FALSE, reason |-> "Budget limit reached",
        remaining |-> budget_limit - total]
  ELSE [allowed |-> TRUE, reason |-> "OK", remaining |-> 0]

\* mutant: the daily limit is looked at first
CanMakeRequest_DailyFirst(total, daily, e) ==
  IF daily + e > daily_limit
  THEN [allowed |-> FALSE, reason |-> "Daily limit reached",
        remaining |-> daily_limit - daily]
  ELSE IF total + e > budget_limit
  THEN [allowed |-> FALSE, reason |-> "Budget limit reached",
        remaining |-> budget_limit - total]
  ELSE [allowed |-> TRUE, reason |-> "OK", remaining |-> 0]

\* can_make_request, on the two sums it has read; the reason is kept as the
\* limit it names and the remaining headroom it prints; "OK" prints none
CanMakeRequest(total, daily, e) ==
  IF total + e > budget_limit
  THEN [allowed |-> FALSE, reason |-> "Budget limit reached",
        remaining |-> budget_limit - total]
  ELSE IF daily + e > daily_limit
  THEN [allowed |-> FALSE, reason |-> "Daily limit reached",
        remaining |-> daily_limit - daily]
  ELSE [allowed |-> TRUE, reason |-> "OK", remaining |-> 0]

\* ---------------------------------------------------------- the JSON file
\* json.dump writes a number as its decimal digits and json.load reads the
\* digits back; a string is written between quotes and read back as it was
RECURSIVE Digits(_)
Digits(n) == IF n < 10 THEN <<n>> ELSE Append(Digits(n \div 10), n % 10)

RECURSIVE FromDigits(_)
FromDigits(ds) ==
  IF Len(ds) = 1 THEN ds[1]
  ELSE FromDigits(SubSeq(ds, 1, Len(ds) - 1)) * 10 + ds[Len(ds)]

\* mutant: a number is written to four decimal places of a dollar
DumpNumber_Rounded(n) == <<"number", Digits((n \div 20000) * 20000)>>

DumpNumber(n) == <<"number", Digits(n)>>

DumpString(str) == <<"string", str>>

LoadValue(v) == IF v[1] = "number" THEN FromDigits(v[2]) ELSE v[2]

\* one record as the object json.dump writes: its members in the order
\* record_usage builds them
DumpRecord(r) ==
  << <<"timestamp", DumpString(r.timestamp)>>,
     <<"model", DumpString(r.model)>>,
     <<"input_tokens", DumpNumber(r.input_tokens)>>,
     <<"output_tokens", DumpNumber(r.output_tokens)>>,
     <<"cost", DumpNumber(r.cost)>>,
     <<"query_type", DumpString(r.query_type)>> >>

\* the dict json.load builds from an object: each member name with its value
LoadRecord(obj) ==
  [k \in {obj[i][1] : i \in 1..Len(obj)} |->
     LoadValue(obj[CHOOSE i \in 1..Len(obj) : obj[i][1] = k][2])]

\* _save_data: json.dump(data, f)
JsonDump(d) == [i \in 1..Len(d) |-> DumpRecord(d[i])]

\* _load_data: json.load(f)
JsonLoad(text) == [i \in 1..Len(text) |-> LoadRecord(text[i])]

\* ------------------------------------------------------- the cost table
\* mutant: a model missing from the table costs nothing
InputRatePerTenth_NoDefault(model) ==
  CASE model = "openai/gpt-3.5-turbo" -> 30
    [] model = "anthropic/claude-3-haiku" -> 5
    [] model = "google/gemini-flash-1.5" -> 7
    [] OTHER -> 0

InputRatePerTenth(model) ==
  CASE model = "openai/gpt-3.5-turbo" -> 30
    [] model = "anthropic/claude-3-haiku" -> 5
    [] model = "google/gemini-flash-1.5" -> 7
    [] OTHER -> 30

OutputRate(model) ==
  CASE model = "openai/gpt-3.5-turbo" -> 400
    [] model = "anthropic/claude-3-haiku" -> 250
    [] model = "google/gemini-flash-1.5" -> 210
    [] OTHER -> 400

CalculateCost(model, in10, out) ==
  in10 * InputRatePerTenth(model) + out * OutputRate(model)

\* ------------------------------------------------------ the usage history
RECURSIVE InsertDesc(_, _)
InsertDesc(r, l) ==
  IF l = <<>> THEN <<r>>
  ELSE IF l[1].timestamp >= r.timestamp THEN <<l[1]>> \o InsertDesc(r, Tail(l))
  ELSE <<r>> \o l

\* sorted(history, key=lambda x: x.timestamp, reverse=True)
RECURSIVE SortDesc(_)
SortDesc(l) ==
  IF l = <<>> THEN <<>>
  ELSE InsertDesc(l[Len(l)], SortDesc(SubSeq(l, 1, Len(l) - 1)))

\* get_usage_history(days): the records not older than the cutoff
GetUsageHistory(days) ==
  SortDesc(SelectSeq(LoadData, LAMBDA r : r.timestamp >= Now - days * DayParts))

\* ------------------------------------------------------ the budget status
\* total_percent, kept exact as the fraction num / den
TotalPercent(total) ==
  IF budget_limit > 0 THEN [num |-> total * 100, den |-> budget_limit]
  ELSE [num |-> 0, den |-> 1]

\* mutant: the bands exclude their lower bounds
GetStatusLevel_Strict(percent) ==
  IF percent.num > 95 * percent.den THEN "CRITICAL"
  ELSE IF percent.num > 80 * percent.den THEN "WARNING"
  ELSE IF percent.num > 50 * percent.den THEN "CAUTION"
  ELSE "OK"

\* _get_status_level
GetStatusLevel(percent) ==
  IF percent.num >= 95 * percent.den THEN "CRITICAL"
  ELSE IF percent.num >= 80 * percent.den THEN "WARNING"
  ELSE IF percent.num >= 50 * percent.den THEN "CAUTION"
  ELSE "OK"

\* get_budget_status, on the two sums it has read
GetBudgetStatus(total, daily) ==
  [total_spent |-> total, total_limit |-> budget_limit,
   total_remaining |-> budget_limit - total,
   total_percent |-> TotalPercent(total),
   daily_spent |-> daily, daily_limit |-> daily_limit,
   daily_remaining |-> daily_limit - daily,
   status |-> GetStatusLevel(TotalPercent(total))]

\* ------------------------------------------------------------------ Init
NoRecord == [timestamp |-> 0, model |-> "", input_tokens |-> 0,
             output_tokens |-> 0, cost |-> 0, query_type |-> ""]

NoCheck == [e |-> 0, day |-> 0, total |-> 0, daily |-> 0, allowed |-> TRUE,
            reason |-> "OK", remaining |-> 0]

NoStatus == [total_spent |-> 0, total_limit |-> 0, total_remaining |-> 0,
             total_percent |-> [num |-> 0, den |-> 1], daily_spent |-> 0,
             daily_limit |-> 0, daily_remaining |-> 0, status |-> "OK"]

\* the settings main() requires
Credentials ==
  {"GOOGLE_CLIENT_ID", "GOOGLE_CLIENT_SECRET", "PORTFOLIO_SHEET_ID",
   "OPENROUTER_API_KEY"}

\* the keyword arguments of a Position(...) call: the optional ones given
\* are named in keys
NoKwargs == [keys |-> {}, platform |-> "", symbol |-> "", currency |-> "",
             value |-> 0, quantity |-> 0, average_price |-> 0]

NoPosition == [kwargs |-> NoKwargs, ok |-> FALSE, total_value |-> 0]

NoCost == [model |-> "", input_tokens |-> 0, output_tokens |-> 0, cost |-> 0]

\* nothing has been called yet
InitLocals ==
  /\ query_type = [s \in Sessions |-> "general"]
  /\ iterations = [s \in Sessions |-> 0]
  /\ cb_in = [s \in Sessions |-> 0]
  /\ cb_out = [s \in Sessions |-> 0]
  /\ data = [s \in Sessions |-> <<>>]
  /\ rec = [s \in Sessions |-> NoRecord]
  /\ total_spent = [s \in Sessions |-> 0]
  /\ daily_spent = [s \in Sessions |-> 0]
  /\ resp = [s \in Sessions |-> "none"]
  /\ observation = [s \in Sessions |-> "none"]
  /\ result = [s \in Sessions |-> "none"]
  /\ check = [s \in Sessions |-> NoCheck]
  /\ status = [s \in Sessions |-> NoStatus]
  /\ cost = [s \in Sessions |-> NoCost]
  /\ history = [s \in Sessions |-> <<>>]
  /\ torn = FALSE
  /\ portfolio = <<>>
  /\ built = NoPosition
  /\ model_calls = [s \in Sessions |-> 0]
  /\ completed = [s \in Sessions |-> 0]
  /\ appended = <<>>
  /\ writes = [s \in Sessions |-> 0]
  /\ q_ledger = [s \in Sessions |-> <<>>]
  /\ only_malformed = [s \in Sessions |-> TRUE]
  /\ tool_raised = [s \in Sessions |-> FALSE]

\* no session has been constructed yet
InitSessions ==
  /\ pc = [s \in Sessions |-> "new"]
  /\ InitLocals

Init ==
  /\ credentials = Credentials
  /\ exists \in BOOLEAN
  /\ ledger = <<>>
  /\ today = 0
  /\ budget_limit \in BudgetLimits
  /\ daily_limit \in DailyLimits
  /\ InitSessions

\* --------------------------------------------------------------- actions
\* the local date advances
Tick ==
  /\ today < MaxDay
  /\ today' = today + 1
  /\ UNCHANGED <<exists, ledger, budget_limit, daily_limit, pc, loc, check, calls, hist>>

\* mutant: every construction writes the empty list
NeedsInit_Always == TRUE

\* mutant: the empty list is written over a file that exists
NeedsInit_Inverted == exists

\* _init_file: if not self.json_path.exists()
NeedsInit == ~exists

\* UsageTracker.__init__ -> _init_file
Construct(s) ==
  /\ pc[s] \in {"new", "idle"}
  /\ pc' = [pc EXCEPT ![s] = IF NeedsInit THEN "init_file" ELSE "idle"]
  /\ UNCHANGED <<env, loc, check, calls, hist>>

\* _init_file: self._save_data([])
InitFileSave(s) ==
  /\ pc[s] = "init_file"
  /\ exists' = TRUE
  /\ ledger' = <<>>
  /\ pc' = [pc EXCEPT ![s] = "idle"]
  /\ UNCHANGED <<today, budget_limit, daily_limit, loc, check, calls, hist>>

\* a direct call of can_make_request(e)
ApiCanMakeRequest(s, e) ==
  /\ pc[s] = "idle"
  /\ LET r == CanMakeRequest(GetTotalSpent, GetDailySpent, e) IN
       check' = [check EXCEPT ![s] =
                 [e |-> e, day |-> today, total |-> GetTotalSpent,
                  daily |-> GetDailySpent, allowed |-> r.allowed,
                  reason |-> r.reason, remaining |-> r.remaining]]
  /\ pc' = [pc EXCEPT ![s] = "checked"]
  /\ UNCHANGED <<env, loc, calls, hist>>

\* a direct call of get_budget_status()
ApiGetBudgetStatus(s) ==
  /\ pc[s] = "idle"
  /\ status' = [status EXCEPT ![s] = GetBudgetStatus(GetTotalSpent, GetDailySpent)]
  /\ pc' = [pc EXCEPT ![s] = "status"]
  /\ UNCHANGED <<env, loc, check, cost, aux, hist>>

\* a direct call of get_usage_history(days)
ApiGetUsageHistory(s, days) ==
  /\ pc[s] = "idle"
  /\ history' = [history EXCEPT ![s] = GetUsageHistory(days)]
  /\ pc' = [pc EXCEPT ![s] = "history"]
  /\ UNCHANGED <<env, loc, check, status, cost, credentials, torn, portfolio,
                 built, hist>>

\* usage.json is removed from outside the program, between two calls of
\* the tracker's methods
Unlink ==
  /\ exists
  /\ \A s \in Sessions : pc[s] \in {"new", "idle", "init_file"}
  /\ exists' = FALSE
  /\ ledger' = <<>>
  /\ UNCHANGED <<today, budget_limit, daily_limit, pc, loc, check, calls, hist>>

\* a direct call of _calculate_cost(model, input_tokens, output_tokens), the
\* input tokens in tenths
ApiCalculateCost(s, model, in10, out) ==
  /\ pc[s] = "idle"
  /\ cost' = [cost EXCEPT ![s] =
              [model |-> model, input_tokens |-> in10, output_tokens |-> out,
               cost |-> CalculateCost(model, in10, out)]]
  /\ pc' = [pc EXCEPT ![s] = "costed"]
  /\ UNCHANGED <<env, loc, check, status, aux, hist>>

\* _save_data(d) followed by _load_data(), on a list d of records
ApiSaveLoad(s, d) ==
  /\ pc[s] = "idle"
  /\ data' = [data EXCEPT ![s] = d]
  /\ ledger' = JsonLoad(JsonDump(d))
  /\ exists' = TRUE
  /\ pc' = [pc EXCEPT ![s] = "loaded"]
  /\ UNCHANGED <<today, budget_limit, daily_limit, query_type, iterations,
                 cb_in, cb_out, rec, total_spent, daily_spent, resp,
                 observation, result, check, calls, hist>>

\* PortfolioAgent.query is entered
StartQuery(s, qt) ==
  /\ pc[s] = "idle"
  /\ pc' = [pc EXCEPT ![s] = "check_total"]
  /\ query_type' = [query_type EXCEPT ![s] = qt]
  /\ q_ledger' = [q_ledger EXCEPT ![s] = LoadData]
  /\ UNCHANGED <<env, iterations, cb_in, cb_out, data, rec, total_spent,
                 daily_spent, resp, observation, result, check, calls, model_calls,
                 completed, appended, writes, only_malformed, tool_raised>>

\* _check_budget -> can_make_request: total_spent = self.get_total_spent()
CheckTotal(s) ==
  /\ pc[s] = "check_total"
  /\ total_spent' = [total_spent EXCEPT ![s] = GetTotalSpent]
  /\ pc' = [pc EXCEPT ![s] = "check_daily"]
  /\ UNCHANGED <<env, query_type, iterations, cb_in, cb_out, data, rec,
                 daily_spent, resp, observation, result, check, calls, hist>>

\* the ways query() ends with an exception leaving it: _check_budget and
\* _initialize_agent are called before the try
QueryRaises ==
  {"ValueError: Budget limit exceeded",
   "ValueError: OPENROUTER_API_KEY not configured"}

\* create_llm: if not config.OPENROUTER_API_KEY: raise ValueError
CreateLlmHasKey == "OPENROUTER_API_KEY" \in credentials

\* mutant: the verdict of can_make_request is ignored
Proceeds_Always(r) == TRUE

\* _check_budget: if not can_proceed: raise ValueError
Proceeds(r) == r.allowed

\* can_make_request's second read and its verdict; on a pass query goes on to
\* _initialize_agent, which builds a fresh callback and executor
CheckBudget(s) ==
  /\ pc[s] = "check_daily"
  /\ daily_spent' = [daily_spent EXCEPT ![s] = 0]
  /\ total_spent' = [total_spent EXCEPT ![s] = 0]
  /\ LET r == CanMakeRequest(total_spent[s], GetDailySpent, DefaultEstimate) IN
     /\ check' = [check EXCEPT ![s] =
                 [e |-> DefaultEstimate, day |-> today, total |-> total_spent[s],
                  daily |-> GetDailySpent, allowed |-> r.allowed,
                  reason |-> r.reason, remaining |-> r.remaining]]
     /\ IF ~Proceeds(r)
       THEN /\ result' = [result EXCEPT ![s] = "ValueError: Budget limit exceeded"]
            /\ pc' = [pc EXCEPT ![s] = "done"]
            /\ UNCHANGED <<cb_in, cb_out, iterations>>
       ELSE IF ~CreateLlmHasKey
       THEN /\ result' = [result EXCEPT ![s] =
                            "ValueError: OPENROUTER_API_KEY not configured"]
            /\ pc' = [pc EXCEPT ![s] = "done"]
            /\ UNCHANGED <<cb_in, cb_out, iterations>>
       ELSE /\ cb_in' = [cb_in EXCEPT ![s] = 0]
            /\ cb_out' = [cb_out EXCEPT ![s] = 0]
            /\ iterations' = [iterations EXCEPT ![s] = 0]
            /\ pc' = [pc EXCEPT ![s] = "awaiting_model"]
            /\ UNCHANGED result
  /\ UNCHANGED <<env, query_type, data, rec, resp, observation, calls, hist>>

\* mutant: the cap is off by one
ShouldContinue_OffByOne(i) == i <= MaxIterations

\* AgentExecutor._should_continue
ShouldContinue(i) == i < MaxIterations

\* mutant: on_llm_start already records the provisional estimate
LlmStart_Records(s, w) ==
  /\ pc[s] = "awaiting_model"
  /\ ShouldContinue(iterations[s])
  /\ Len(appended) < MaxLedger
  /\ cb_in' = [cb_in EXCEPT ![s] = @ + w * TenthsPerWord]
  /\ model_calls' = [model_calls EXCEPT ![s] = @ + 1]
  /\ ledger' = Append(LoadData, [NoRecord EXCEPT !.input_tokens = w])
  /\ appended' = Append(appended, [NoRecord EXCEPT !.input_tokens = w])
  /\ writes' = [writes EXCEPT ![s] = @ + 1]
  /\ exists' = TRUE
  /\ pc' = [pc EXCEPT ![s] = "in_call"]
  /\ UNCHANGED <<today, budget_limit, daily_limit, query_type, iterations,
                 cb_out, data, rec, total_spent, daily_spent, resp,
                 observation, result, check, calls, completed, q_ledger,
                 only_malformed, tool_raised>>

\* the loop asks the model: on_llm_start adds the estimate of each prompt
LlmStart(s, w) ==
  /\ pc[s] = "awaiting_model"
  /\ ShouldContinue(iterations[s])
  /\ cb_in' = [cb_in EXCEPT ![s] = @ + w * TenthsPerWord]
  /\ model_calls' = [model_calls EXCEPT ![s] = @ + 1]
  /\ pc' = [pc EXCEPT ![s] = "in_call"]
  /\ UNCHANGED <<env, query_type, iterations, cb_out, data, rec, total_spent,
                 daily_spent, resp, observation, result, check, calls, completed,
                 appended, writes, q_ledger, only_malformed, tool_raised>>

\* the cap is reached: the executor returns its stopped response as the output
StopAtCap(s) ==
  /\ pc[s] = "awaiting_model"
  /\ ~ShouldContinue(iterations[s])
  /\ result' = [result EXCEPT ![s] = "Agent stopped due to iteration limit or time limit."]
  /\ pc' = [pc EXCEPT ![s] = "done"]
  /\ UNCHANGED <<env, query_type, iterations, cb_in, cb_out, data, rec,
                 total_spent, daily_spent, resp, observation, check, calls, hist>>

\* mutant: a model call that raised is made again
LlmFail_Retry(s) ==
  /\ pc[s] = "in_call"
  /\ result' = [result EXCEPT ![s] = "Error processing query: model call failed"]
  /\ only_malformed' = [only_malformed EXCEPT ![s] = FALSE]
  /\ pc' = [pc EXCEPT ![s] = "awaiting_model"]
  /\ UNCHANGED <<env, query_type, iterations, cb_in, cb_out, data, rec,
                 total_spent, daily_spent, resp, observation, check, calls,
                 model_calls, completed, appended, writes, q_ledger,
                 tool_raised>>

\* the model call raises: on_llm_end does not run, and query's except turns
\* the exception into the returned string
LlmFail(s) ==
  /\ pc[s] = "in_call"
  /\ result' = [result EXCEPT ![s] = "Error processing query: model call failed"]
  /\ only_malformed' = [only_malformed EXCEPT ![s] = FALSE]
  /\ pc' = [pc EXCEPT ![s] = "done"]
  /\ UNCHANGED <<env, query_type, iterations, cb_in, cb_out, data, rec,
                 total_spent, daily_spent, resp, observation, check, calls,
                 model_calls, completed, appended, writes, q_ledger,
                 tool_raised>>

\* on_llm_end: whether the response makes the callback record the call
Records(u) == u.has

\* on_llm_end: the token counts taken from the response
EndInput(u, in10) ==
  IF "prompt_tokens" \in u.keys THEN u.prompt_tokens * 10 ELSE in10

EndOutput(u) ==
  IF "completion_tokens" \in u.keys THEN u.completion_tokens ELSE 0

\* the model call completes: on_llm_end, and record_usage up to its record
LlmEnd(s, u, kind) ==
  /\ pc[s] = "in_call"
  /\ Records(u) =>
       Len(appended) + Cardinality({x \in Sessions : pc[x] = "saving"}) < MaxLedger
  /\ resp' = [resp EXCEPT ![s] = kind]
  /\ completed' = [completed EXCEPT ![s] = @ + 1]
  /\ only_malformed' = [only_malformed EXCEPT ![s] = @ /\ kind = "malformed"]
  /\ IF Records(u)
     THEN LET in10 == EndInput(u, cb_in[s])
              out == EndOutput(u) IN
          /\ cb_in' = [cb_in EXCEPT ![s] = in10]
          /\ cb_out' = [cb_out EXCEPT ![s] = out]
          /\ data' = [data EXCEPT ![s] = LoadData]
          /\ rec' = [rec EXCEPT ![s] =
                 [timestamp |-> Now, model |-> LLM_MODEL,
                  input_tokens |-> in10 \div 10, output_tokens |-> out,
                  cost |-> CalculateCost(LLM_MODEL, in10, out),
                  query_type |-> query_type[s]]]
          /\ pc' = [pc EXCEPT ![s] = "saving"]
     ELSE /\ pc' = [pc EXCEPT ![s] = "parse"]
          /\ UNCHANGED <<cb_in, cb_out, data, rec>>
  /\ UNCHANGED <<env, query_type, iterations, total_spent, daily_spent,
                 observation, result, check, calls, model_calls, appended, writes,
                 q_ledger, tool_raised>>

\* mutant: only the new record is saved
SavedData_Overwrite(d, r) == <<r>>

\* record_usage: data.append(record); self._save_data(data)
SavedData(d, r) == Append(d, r)

SaveRecord(s) ==
  /\ pc[s] = "saving"
  /\ ledger' = SavedData(data[s], rec[s])
  /\ exists' = TRUE
  /\ writes' = [writes EXCEPT ![s] = @ + 1]
  /\ appended' = Append(appended, rec[s])
  /\ data' = [data EXCEPT ![s] = <<>>]
  /\ rec' = [rec EXCEPT ![s] = NoRecord]
  /\ pc' = [pc EXCEPT ![s] = "parse"]
  /\ UNCHANGED <<today, budget_limit, daily_limit, query_type, iterations,
                 cb_in, cb_out, total_spent, daily_spent, resp, observation,
                 result, check, calls, model_calls, completed, q_ledger,
                 only_malformed, tool_raised>>

\* mutant: parsing errors are not handled
HandleParsingErrors_Off == FALSE

\* AgentExecutor(handle_parsing_errors=True)
HandleParsingErrors == TRUE

\* the agent's plan step reads the response
Parse(s) ==
  /\ pc[s] = "parse"
  /\ CASE resp[s] = "final" ->
            /\ result' = [result EXCEPT ![s] = "final answer"]
            /\ pc' = [pc EXCEPT ![s] = "done"]
            /\ UNCHANGED <<iterations, observation>>
       [] resp[s] = "malformed" /\ HandleParsingErrors ->
            /\ observation' = [observation EXCEPT ![s] = "Invalid Format"]
            /\ iterations' = [iterations EXCEPT ![s] = @ + 1]
            /\ pc' = [pc EXCEPT ![s] = "awaiting_model"]
            /\ UNCHANGED result
       [] resp[s] = "malformed" /\ ~HandleParsingErrors ->
            /\ result' = [result EXCEPT ![s] = "Error processing query: output parsing error"]
            /\ pc' = [pc EXCEPT ![s] = "done"]
            /\ UNCHANGED <<iterations, observation>>
       [] OTHER ->
            /\ pc' = [pc EXCEPT ![s] = "executing_tool"]
            /\ UNCHANGED <<iterations, observation, result>>
  /\ UNCHANGED <<env, query_type, cb_in, cb_out, data, rec, total_spent,
                 daily_spent, resp, check, calls, hist>>

\* create_portfolio_tools: the names of the fixed tool set
ToolNames ==
  {"get_portfolio_summary", "get_positions", "get_allocation_by_platform",
   "get_allocation_by_currency", "get_allocation_by_asset_type",
   "get_etf_prices", "get_market_analysis", "research_article",
   "research_market"}

\* the action name a response of each kind carries
ActionName(kind) ==
  CASE kind = "tool" -> "get_portfolio_summary"
    [] kind = "unknown_tool" -> "Get_Portfolio_Summary"
    [] OTHER -> ""

\* mutant: every name is taken for a tool
InToolSet_Any(name) == TRUE

\* the executor's lookup of the named action among its tools
InToolSet(name) == name \in ToolNames

\* the executor performs the action the model named
ToolStep(s, raises) ==
  /\ pc[s] = "executing_tool"
  /\ IF InToolSet(ActionName(resp[s])) /\ raises
     THEN /\ result' = [result EXCEPT ![s] = "Error processing query: tool failed"]
          /\ tool_raised' = [tool_raised EXCEPT ![s] = TRUE]
          /\ pc' = [pc EXCEPT ![s] = "done"]
          /\ UNCHANGED <<iterations, observation>>
     ELSE /\ observation' = [observation EXCEPT ![s] =
                 IF InToolSet(ActionName(resp[s])) THEN "tool output"
                 ELSE "not a valid tool, try one of [tool names]"]
          /\ iterations' = [iterations EXCEPT ![s] = @ + 1]
          /\ pc' = [pc EXCEPT ![s] = "awaiting_model"]
          /\ UNCHANGED <<result, tool_raised>>
  /\ UNCHANGED <<env, query_type, cb_in, cb_out, data, rec, total_spent,
                 daily_spent, resp, check, calls, model_calls, completed, appended,
                 writes, q_ledger, only_malformed>>

\* query() has returned or raised; the caller may ask again
Return(s) ==
  /\ pc[s] \in {"done", "checked", "status", "costed", "history"}
  /\ pc' = [pc EXCEPT ![s] = "idle"]
  /\ query_type' = [query_type EXCEPT ![s] = "general"]
  /\ iterations' = [iterations EXCEPT ![s] = 0]
  /\ cb_in' = [cb_in EXCEPT ![s] = 0]
  /\ cb_out' = [cb_out EXCEPT ![s] = 0]
  /\ resp' = [resp EXCEPT ![s] = "none"]
  /\ observation' = [observation EXCEPT ![s] = "none"]
  /\ result' = [result EXCEPT ![s] = "none"]
  /\ check' = [check EXCEPT ![s] = NoCheck]
  /\ status' = [status EXCEPT ![s] = NoStatus]
  /\ cost' = [cost EXCEPT ![s] = NoCost]
  /\ history' = [history EXCEPT ![s] = <<>>]
  /\ model_calls' = [model_calls EXCEPT ![s] = 0]
  /\ completed' = [completed EXCEPT ![s] = 0]
  /\ writes' = [writes EXCEPT ![s] = 0]
  /\ q_ledger' = [q_ledger EXCEPT ![s] = <<>>]
  /\ only_malformed' = [only_malformed EXCEPT ![s] = TRUE]
  /\ tool_raised' = [tool_raised EXCEPT ![s] = FALSE]
  /\ UNCHANGED <<env, data, rec, total_spent, daily_spent, appended,
                 credentials, torn, portfolio, built>>

\* main: the settings it requires before it builds the tracker
ValidateGoogleCredentials ==
  {"GOOGLE_CLIENT_ID", "GOOGLE_CLIENT_SECRET"} \subseteq credentials

ValidateSheetId == "PORTFOLIO_SHEET_ID" \in credentials

\* mutant: main does not look at the key
MainHasKey_Unchecked == TRUE

\* main: if not config.OPENROUTER_API_KEY
MainHasKey == "OPENROUTER_API_KEY" \in credentials

ConfigErrors ==
  {"Error: Google credentials not configured!",
   "Error: Sheet ID not configured!",
   "Error: OpenRouter API key not configured!"}

\* main, up to the construction of the tracker: a missing setting is
\* printed and the process exits
MainStart(s) ==
  /\ pc[s] = "main"
  /\ IF ~ValidateGoogleCredentials
     THEN /\ result' = [result EXCEPT ![s] = "Error: Google credentials not configured!"]
          /\ pc' = [pc EXCEPT ![s] = "exited"]
     ELSE IF ~ValidateSheetId
     THEN /\ result' = [result EXCEPT ![s] = "Error: Sheet ID not configured!"]
          /\ pc' = [pc EXCEPT ![s] = "exited"]
     ELSE IF ~MainHasKey
     THEN /\ result' = [result EXCEPT ![s] = "Error: OpenRouter API key not configured!"]
          /\ pc' = [pc EXCEPT ![s] = "exited"]
     ELSE /\ pc' = [pc EXCEPT ![s] = "new"]
          /\ UNCHANGED result
  /\ UNCHANGED <<env, query_type, iterations, cb_in, cb_out, data, rec,
                 total_spent, daily_spent, resp, observation, check, calls,
                 hist>>

\* interactive_mode: print(response), and the loop reads the next input
CliPrint(s) ==
  /\ result[s] \notin QueryRaises
  /\ Return(s)

\* interactive_mode: except ValueError: print the error; break
CliValueError(s) ==
  /\ pc[s] = "done"
  /\ result[s] \in QueryRaises
  /\ pc' = [pc EXCEPT ![s] = "exited"]
  /\ UNCHANGED <<env, loc, check, calls, hist>>

\* interactive_mode: the user types exit or quit, or interrupts, at the prompt
CliExit(s) ==
  /\ pc[s] = "idle"
  /\ pc' = [pc EXCEPT ![s] = "exited"]
  /\ UNCHANGED <<env, loc, check, calls, hist>>

\* how far _save_data got when it raised or the process was stopped:
\* open(json_path, 'w') did not succeed, or it truncated the file and
\* json.dump wrote none or only a part of the text, or the text was written
SaveOutcomes == {"not_opened", "torn", "written"}

\* record_usage whose _save_data does not return: open(..., 'w') empties the
\* file before json.dump writes the list again
SaveFails(s, outcome) ==
  /\ pc[s] = "saving"
  /\ CASE outcome = "not_opened" ->
            UNCHANGED <<exists, ledger, torn, appended, writes>>
       [] outcome = "torn" -> /\ exists' = TRUE
                              /\ ledger' = <<>>
                              /\ torn' = TRUE
                              /\ writes' = [writes EXCEPT ![s] = @ + 1]
                              /\ UNCHANGED appended
       [] outcome = "written" -> /\ exists' = TRUE
                                 /\ ledger' = SavedData(data[s], rec[s])
                                 /\ appended' = Append(appended, rec[s])
                                 /\ writes' = [writes EXCEPT ![s] = @ + 1]
                                 /\ UNCHANGED torn
  /\ pc' = [pc EXCEPT ![s] = "crashed"]
  /\ UNCHANGED <<today, budget_limit, daily_limit, query_type, iterations,
                 cb_in, cb_out, data, rec, total_spent, daily_spent, resp,
                 observation, result, check, status, cost, history,
                 credentials, portfolio, built, model_calls, completed,
                 q_ledger, only_malformed, tool_raised>>

SessionStep(s) ==
  \/ Construct(s)
  \/ InitFileSave(s)
  \/ \E e \in Estimates : ApiCanMakeRequest(s, e)
  \/ \E qt \in QueryTypes : StartQuery(s, qt)
  \/ CheckTotal(s)
  \/ CheckBudget(s)
  \/ \E w \in Words : LlmStart(s, w)
  \/ StopAtCap(s)
  \/ LlmFail(s)
  \/ \E u \in Usages, kind \in ParseKinds : LlmEnd(s, u, kind)
  \/ SaveRecord(s)
  \/ Parse(s)
  \/ \E raises \in BOOLEAN : ToolStep(s, raises)
  \/ Return(s)

\* one process: a single session uses the ledger
Next == Tick \/ SessionStep(1)

Spec == Init /\ [][Next]_vars

\* two sessions share the ledger file and their steps interleave, within one
\* calendar day; every query is answered by the model's first response
ConcStep(s) ==
  \/ Construct(s)
  \/ InitFileSave(s)
  \/ \E qt \in QueryTypes : StartQuery(s, qt)
  \/ CheckTotal(s)
  \/ CheckBudget(s)
  \/ \E w \in Words : LlmStart(s, w)
  \/ \E u \in Usages : LlmEnd(s, u, "final")
  \/ SaveRecord(s)
  \/ Parse(s)
  \/ Return(s)

NextConc == \E s \in Sessions : ConcStep(s)

SpecConc == Init /\ [][NextConc]_vars

\* the interactive command line: one agent, every input a query of the
\* default query type, within one calendar day
CliStep(s) ==
  \/ Construct(s)
  \/ InitFileSave(s)
  \/ StartQuery(s, "general")
  \/ CheckTotal(s)
  \/ CheckBudget(s)
  \/ \E w \in Words : LlmStart(s, w)
  \/ StopAtCap(s)
  \/ LlmFail(s)
  \/ \E u \in Usages, kind \in ParseKinds : LlmEnd(s, u, kind)
  \/ SaveRecord(s)
  \/ Parse(s)
  \/ \E raises \in BOOLEAN : ToolStep(s, raises)
  \/ CliPrint(s)
  \/ CliValueError(s)
  \/ CliExit(s)

NextCli == CliStep(1)

SpecCli == Init /\ [][NextCli]_vars

\* the command line from its start, with any of the settings missing
InitMain ==
  /\ credentials \in SUBSET Credentials
  /\ exists \in BOOLEAN
  /\ ledger = <<>>
  /\ today = 0
  /\ budget_limit \in BudgetLimits
  /\ daily_limit \in DailyLimits
  /\ pc = [s \in Sessions |-> "main"]
  /\ InitLocals

NextMain == MainStart(1) \/ CliStep(1)

SpecMain == InitMain /\ [][NextMain]_vars

\* one process whose write of the ledger file may not complete
NextDisk == SessionStep(1) \/ \E outcome \in SaveOutcomes : SaveFails(1, outcome)

SpecDisk == Init /\ [][NextDisk]_vars

\* ---- models/portfolio.py: Position and Portfolio ----

\* the longest Portfolio built
MaxPositions == 2

\* str.strip() on the strings drawn below
Strip(str) == IF str = " " THEN "" ELSE str

\* the keyword arguments of a Position(...) call: keys holds the names of the
\* numeric arguments that were passed, the others are left at their default;
\* a value or quantity of 0 stands for the arguments that fail gt=0
PositionKwargs ==
  {kw \in [keys : SUBSET {"value", "quantity", "average_price"},
           platform : {"Lulo", " "},
           symbol : {"VOO", ""},
           currency : {"COP", "USD", "EUR"},
           value : {0, 1000},
           quantity : {0, 10},
           average_price : {0, 450}] :
     /\ "average_price" \in kw.keys => kw.average_price > 0
     /\ "value" \notin kw.keys => kw.value = 0
     /\ "quantity" \notin kw.keys => kw.quantity = 0
     /\ "average_price" \notin kw.keys => kw.average_price = 0}

\* Position's field constraints and validators: platform and symbol have
\* min_length 1 and are not blank, currency is COP or USD, value is required
\* and > 0, quantity and average_price are > 0 when given
ValidatePosition(kw) ==
  /\ Len(kw.platform) >= 1 /\ Strip(kw.platform) # ""
  /\ Len(kw.symbol) >= 1 /\ Strip(kw.symbol) # ""
  /\ kw.currency \in {"COP", "USD"}
  /\ "value" \in kw.keys /\ kw.value > 0
  /\ "quantity" \in kw.keys => kw.quantity > 0
  /\ "average_price" \in kw.keys => kw.average_price > 0

\* the Position a valid call returns: the validators strip both strings
Validated(kw) ==
  [kw EXCEPT !.platform = Strip(kw.platform), !.symbol = Strip(kw.symbol)]

\* Position.total_value
TotalValue(pos) ==
  IF "quantity" \in pos.keys /\ "average_price" \in pos.keys
  THEN pos.quantity * pos.average_price
  ELSE pos.value

RECURSIVE SumTotalValue(_)
SumTotalValue(positions) ==
  IF positions = <<>> THEN 0
  ELSE TotalValue(Head(positions)) + SumTotalValue(Tail(positions))

\* Portfolio.total_value_by_currency
TotalValueByCurrency(positions, currency) ==
  SumTotalValue(SelectSeq(positions, LAMBDA pos : pos.currency = currency))

\* Position(**kw): a ValidationError leaves no object
NewPosition(kw) ==
  /\ built' = [kwargs |-> kw, ok |-> ValidatePosition(kw),
               total_value |-> IF ValidatePosition(kw)
                               THEN TotalValue(Validated(kw)) ELSE 0]
  /\ UNCHANGED <<env, pc, loc, check, status, cost, history, credentials,
                 torn, portfolio, hist>>

\* Portfolio(positions=[..., pos]) with the Position just built
NewPortfolio ==
  /\ built.ok
  /\ Len(portfolio) < MaxPositions
  /\ portfolio' = Append(portfolio, Validated(built.kwargs))
  /\ UNCHANGED <<env, pc, loc, check, status, cost, history, credentials,
                 torn, built, hist>>

NextModels == (\E kw \in PositionKwargs : NewPosition(kw)) \/ NewPortfolio

SpecModels == Init /\ [][NextModels]_vars

\* direct calls of the tracker over a ledger file found at start-up: every
\* ledger of up to MaxLedger records written, in order, on days up to today
ApiTokens == {<<3000, 0>>, <<4500, 0>>, <<4997, 2>>, <<5000, 0>>}

ApiRecords ==
  {[timestamp |-> ts, model |-> LLM_MODEL, input_tokens |-> tk[1],
    output_tokens |-> tk[2], cost |-> CalculateCost(LLM_MODEL, tk[1] * 10, tk[2]),
    query_type |-> "general"] :
     ts \in 0..((MaxDay + 1) * DayParts - 1), tk \in ApiTokens}

Ledgers == UNION {[1..n -> ApiRecords] : n \in 0..MaxLedger}

InOrder(l) == \A i \in 1..(Len(l) - 1) : l[i].timestamp <= l[i + 1].timestamp

\* BUDGET_LIMIT as configured: the session's value, and none at all
ApiBudgetLimits == BudgetLimits \cup {0}

InitApi ==
  /\ credentials = Credentials
  /\ exists = TRUE
  /\ today \in 0..MaxDay
  /\ ledger \in {l \in Ledgers : InOrder(l) /\
                   \A i \in 1..Len(l) : DateOf(l[i].timestamp) <= today}
  /\ budget_limit \in ApiBudgetLimits
  /\ daily_limit \in DailyLimits
  /\ InitSessions

HistoryDays == {0, 1, 7}

\* estimated_cost of a direct can_make_request: the session's values and one
\* above the daily limit
ApiEstimates == Estimates \cup {2750000}

NextApi ==
  \/ Tick
  \/ Unlink
  \/ Construct(1)
  \/ InitFileSave(1)
  \/ \E e \in ApiEstimates : ApiCanMakeRequest(1, e)
  \/ ApiGetBudgetStatus(1)
  \/ \E days \in HistoryDays : ApiGetUsageHistory(1, days)
  \/ Return(1)

SpecApi == InitApi /\ [][NextApi]_vars

\* the ledger saved and loaded again, for every list of records
NextJson ==
  \/ Construct(1)
  \/ InitFileSave(1)
  \/ \E d \in Ledgers : ApiSaveLoad(1, d)

SpecJson == Init /\ [][NextJson]_vars

\* direct calls of the cost function
Models ==
  {"openai/gpt-3.5-turbo", "anthropic/claude-3-haiku",
   "google/gemini-flash-1.5", "meta-llama/llama-3-8b", ""}

CostInputs == {0, 10, 13, 10000, 13000}      \* input tokens, in tenths
CostOutputs == {0, 1, 7, 1000, 4025}         \* output tokens

NextCost ==
  \/ Construct(1)
  \/ InitFileSave(1)
  \/ \E m \in Models, in10 \in CostInputs, out \in CostOutputs :
       ApiCalculateCost(1, m, in10, out)
  \/ Return(1)

SpecCost == Init /\ [][NextCost]_vars

\* ================================================================ claims
Rejected == "ValueError: Budget limit exceeded"
Stopped == "Agent stopped due to iteration limit or time limit."
InLoop == {"awaiting_model", "in_call", "saving", "parse", "executing_tool"}

IsPrefix(a, b) == Len(a) <= Len(b) /\ a = SubSeq(b, 1, Len(a))

\* C1: a direct can_make_request(e) answers allowed = FALSE exactly when the
\* ledger's total + e > budget_limit or the day's total + e > daily_limit; a
\* sum equal to a limit is allowed.
C1_CanMakeRequest ==
  \A s \in Sessions : pc[s] = "checked" =>
    (check[s].allowed <=>
       ~(SumCost(LoadData) + check[s].e > budget_limit
         \/ DailyCost(LoadData, check[s].day) + check[s].e > daily_limit))

\* a request whose sum is exactly the lifetime limit was allowed
C1_Witness ==
  \E s \in Sessions :
    /\ pc[s] = "checked"
    /\ check[s].allowed
    /\ check[s].e > 0
    /\ SumCost(LoadData) + check[s].e = budget_limit

\* C2: when the pre-flight check of query rejects, the query makes no model
\* call and no ledger write: the ledger is the one the query began with.
C2_RejectedQueryLeavesLedger ==
  \A s \in Sessions : (pc[s] # "checked" /\ ~check[s].allowed) =>
    /\ pc[s] = "done"
    /\ result[s] = Rejected
    /\ model_calls[s] = 0
    /\ writes[s] = 0
    /\ LoadData = q_ledger[s]

\* a query was rejected over a ledger that holds records
C2_Witness ==
  \E s \in Sessions :
    /\ pc[s] = "done"
    /\ result[s] = Rejected
    /\ ~check[s].allowed
    /\ Len(LoadData) > 0

\* C3: every completed model call has written exactly one record by the time
\* its on_llm_end has returned.
C3_OneRecordPerCompletedCall ==
  \A s \in Sessions : pc[s] # "saving" => writes[s] = completed[s]

\* C4: get_total_spent() is the sum of the costs of all records appended so
\* far, and so is the total a can_make_request read after the appends.
C4_TotalIsSumOfAppended ==
  /\ GetTotalSpent = SumCost(appended)
  /\ \A s \in Sessions : pc[s] = "checked" => check[s].total = SumCost(appended)

\* a read made after two appends
C4_Witness ==
  \E s \in Sessions :
    /\ pc[s] = "checked"
    /\ Len(appended) = 2
    /\ check[s].total = appended[1].cost + appended[2].cost
    /\ check[s].total > 0

\* C5: no step removes, changes or moves a persisted record, and a completed
\* record_usage extends the persisted sequence by exactly its record.
C5_AppendOnly ==
  [][/\ IsPrefix(LoadData, LoadData')
     /\ Len(LoadData') <= Len(LoadData) + 1
     /\ Len(appended') > Len(appended) =>
          LoadData' = Append(LoadData, appended'[Len(appended')])]_vars

\* a record_usage has just extended a ledger that already held a record
C5_Witness ==
  \E s \in Sessions :
    /\ pc[s] = "parse"
    /\ writes[s] >= 1
    /\ Len(LoadData) = 2
    /\ LoadData = appended

\* C6: once both sessions have each completed a record_usage, both records
\* are in the persisted ledger.
C6_BothRecordsPersisted ==
  (\A s \in Sessions : pc[s] \in {"parse", "done"} /\ writes[s] >= 1) =>
    /\ Len(LoadData) >= 2
    /\ LoadData = appended

\* C7: a session is in its loop only after can_make_request allowed it on
\* the totals it read.
C7_IndividuallyAllowed ==
  \A s \in Sessions : pc[s] \in InLoop =>
    /\ check[s].allowed
    /\ check[s].total + DefaultEstimate <= budget_limit
    /\ check[s].daily + DefaultEstimate <= daily_limit

\* both sessions passed the check on the same total, each appended a record
\* that costs no more than the estimate, and the ledger is over the limit
C7_Witness ==
  /\ \A s \in Sessions :
       /\ pc[s] \in {"parse", "done"}
       /\ check[s].allowed
       /\ check[s].total = 0
       /\ writes[s] = 1
  /\ Len(LoadData) = 2
  /\ \A i \in 1..2 : LoadData[i].cost <= DefaultEstimate
  /\ GetTotalSpent > budget_limit

\* C8: a query makes at most MaxIterations model calls and round trips, and
\* a query that used them all up ends with the executor's stopped message
\* as its result.
C8_IterationCap ==
  \A s \in Sessions :
    /\ model_calls[s] <= MaxIterations
    /\ iterations[s] <= MaxIterations
    /\ (pc[s] = "done" /\ iterations[s] = MaxIterations) => result[s] = Stopped

\* a query ended at the cap
C8_Witness ==
  \E s \in Sessions :
    /\ pc[s] = "done"
    /\ model_calls[s] = MaxIterations
    /\ iterations[s] = MaxIterations
    /\ result[s] = Stopped

\* C9: while every response is malformed, each one becomes an observation
\* and uses up one iteration, and the query ends stopped after exactly
\* MaxIterations model calls.
C9_MalformedRunsToCap ==
  \A s \in Sessions : (only_malformed[s] /\ completed[s] > 0) =>
    /\ pc[s] = "awaiting_model" =>
         /\ iterations[s] = completed[s]
         /\ observation[s] = "Invalid Format"
    /\ pc[s] = "done" =>
         /\ result[s] = Stopped
         /\ completed[s] = MaxIterations

\* a query whose every response was malformed ended at the cap
C9_Witness ==
  \E s \in Sessions :
    /\ pc[s] = "done"
    /\ only_malformed[s]
    /\ completed[s] = MaxIterations
    /\ result[s] = Stopped

\* C10: a query in which a tool raised still runs to the cap and ends with
\* the executor's stopped message.
C10_ToolErrorRunsToCap ==
  \A s \in Sessions : (tool_raised[s] /\ pc[s] = "done") =>
    /\ result[s] = Stopped
    /\ iterations[s] = MaxIterations

ModelFailed == "Error processing query: model call failed"
InvalidTool == "not a valid tool, try one of [tool names]"

\* C11: a query whose budget check failed ends with an error result that
\* query returns; no exception leaves query.
C11_BudgetFailureIsReturned ==
  \A s \in Sessions : (pc[s] = "done" /\ ~check[s].allowed) =>
    result[s] \notin QueryRaises

\* C12: a model call that raises ends the query at once with the returned
\* error string: nothing leaves query as an exception, the failed call is
\* the last call the query started, and the step writes nothing to the ledger.
C12_ModelFailureIsTerminal ==
  /\ [](\A s \in Sessions : result[s] = ModelFailed =>
           /\ pc[s] = "done"
           /\ result[s] \notin QueryRaises
           /\ model_calls[s] = completed[s] + 1
           /\ writes[s] <= completed[s])
  /\ [][\A s \in Sessions :
          (pc[s] = "in_call" /\ result'[s] = ModelFailed) =>
            /\ pc'[s] = "done"
            /\ LoadData' = LoadData
            /\ appended' = appended
            /\ model_calls'[s] = model_calls[s]]_vars

\* the second model call of a query failed after the first was recorded
C12_Witness ==
  \E s \in Sessions :
    /\ pc[s] = "done"
    /\ result[s] = ModelFailed
    /\ model_calls[s] = 2
    /\ writes[s] = 1
    /\ Len(LoadData) = 1

\* C13: in interactive mode every query that has ended, failed or not, is
\* followed by the prompt; the loop ends only from the prompt.
C13_FailureKeepsSession ==
  [][\A s \in Sessions :
       (pc[s] # "exited" /\ pc'[s] = "exited") => pc[s] = "idle"]_vars

\* C14: when the lifetime sum is over its limit the answer is the lifetime
\* rejection with the lifetime headroom, whatever the daily sum; the daily
\* rejection is given only when the lifetime sum passes.
C14_LifetimeFirst ==
  \A s \in Sessions : pc[s] = "checked" =>
    /\ check[s].total + check[s].e > budget_limit =>
         /\ ~check[s].allowed
         /\ check[s].reason = "Budget limit reached"
         /\ check[s].remaining = budget_limit - check[s].total
    /\ check[s].reason = "Daily limit reached" =>
         /\ check[s].total + check[s].e <= budget_limit
         /\ check[s].daily + check[s].e > daily_limit
         /\ check[s].remaining = daily_limit - check[s].daily

\* both sums were over their limits and the lifetime rejection was given
C14_Witness ==
  \E s \in Sessions :
    /\ pc[s] = "checked"
    /\ check[s].total + check[s].e > budget_limit
    /\ check[s].daily + check[s].e > daily_limit
    /\ check[s].reason = "Budget limit reached"

\* the records of l stamped within calendar day d
OnDay(l, d) ==
  SelectSeq(l, LAMBDA r : /\ r.timestamp >= d * DayParts
                          /\ r.timestamp < (d + 1) * DayParts)

\* C15: the daily sum a call reads is the sum of the costs of exactly the
\* records stamped within the reference day, at whatever time of that day.
C15_DailySpent ==
  /\ GetDailySpent = SumCost(OnDay(LoadData, today))
  /\ \A s \in Sessions : pc[s] = "checked" =>
       check[s].daily = SumCost(OnDay(LoadData, check[s].day))

\* a daily sum read over a record of the day before and a record stamped in
\* the later part of the reference day
C15_Witness ==
  \E s \in Sessions :
    /\ pc[s] = "checked"
    /\ check[s].day = 1
    /\ Len(LoadData) >= 2
    /\ DateOf(LoadData[1].timestamp) = 0
    /\ LoadData[Len(LoadData)].timestamp = DayParts + 1
    /\ check[s].daily > 0
    /\ check[s].daily < check[s].total

\* C16: the status of get_budget_status is CRITICAL exactly when the lifetime
\* total is at least 95 percent of the limit, WARNING exactly from 80 up to
\* 95, CAUTION exactly from 50 up to 80, and OK below 50.
C16_StatusBands ==
  \A s \in Sessions : (pc[s] = "status" /\ budget_limit > 0) =>
    LET t100 == SumCost(LoadData) * 100
        L == budget_limit
        level == status[s].status IN
    /\ status[s].total_spent = SumCost(LoadData)
    /\ level = "CRITICAL" <=> t100 >= 95 * L
    /\ level = "WARNING" <=> (t100 >= 80 * L /\ t100 < 95 * L)
    /\ level = "CAUTION" <=> (t100 >= 50 * L /\ t100 < 80 * L)
    /\ level = "OK" <=> t100 < 50 * L

\* a total of exactly 80 percent of the limit was reported as WARNING
C16_Witness ==
  \E s \in Sessions :
    /\ pc[s] = "status"
    /\ status[s].total_spent * 100 = 80 * budget_limit
    /\ status[s].status = "WARNING"

\* C17: a query has never written more records than it has completed model
\* calls; starting a call writes nothing, and every write is made by a
\* session whose call has completed.
C17_WriteAfterCompletion ==
  /\ [](\A s \in Sessions : writes[s] <= completed[s])
  /\ [][/\ \A s \in Sessions :
            model_calls'[s] > model_calls[s] =>
              (LoadData' = LoadData /\ appended' = appended)
        /\ Len(appended') > Len(appended) =>
            \E s \in Sessions : pc[s] = "saving" /\ completed[s] > writes[s]]_vars

\* the second call of a query has started and only the first is recorded
C17_Witness ==
  \E s \in Sessions :
    /\ pc[s] = "in_call"
    /\ model_calls[s] = 2
    /\ completed[s] = 1
    /\ writes[s] = 1
    /\ Len(LoadData) = 1

\* C18: when a model call completes, on_llm_end goes on to write a record
\* whose input tokens are the exact count of the response or else the
\* standing estimate, and whose output tokens are the exact count or else 0.
C18_RecordOnEveryCompletion ==
  [][\A s \in Sessions :
       (pc[s] = "in_call" /\ completed'[s] = completed[s] + 1) =>
         /\ pc'[s] = "saving"
         /\ \/ rec'[s].input_tokens \in PromptTokens
            \/ rec'[s].input_tokens = cb_in[s] \div 10
         /\ rec'[s].output_tokens \in CompletionTokens \cup {0}
         /\ rec'[s].cost = CalculateCost(LLM_MODEL, rec'[s].input_tokens * 10,
                                          rec'[s].output_tokens)]_vars

\* C19: the cost is input tokens times the input rate plus output tokens
\* times the output rate of the given model, a model missing from the table
\* costs what the default model costs, the cost is never negative, and the
\* call changes nothing else.
C19_CalculateCost ==
  /\ [](\A s \in Sessions : pc[s] = "costed" =>
          LET c == cost[s] IN
          /\ c.model = "openai/gpt-3.5-turbo" =>
               c.cost = c.input_tokens * 30 + c.output_tokens * 400
          /\ c.model = "anthropic/claude-3-haiku" =>
               c.cost = c.input_tokens * 5 + c.output_tokens * 250
          /\ c.model = "google/gemini-flash-1.5" =>
               c.cost = c.input_tokens * 7 + c.output_tokens * 210
          /\ c.model \notin {"openai/gpt-3.5-turbo", "anthropic/claude-3-haiku",
                              "google/gemini-flash-1.5"} =>
               c.cost = c.input_tokens * 30 + c.output_tokens * 400
          /\ c.cost >= 0)
  /\ [][\A s \in Sessions : pc'[s] = "costed" =>
          UNCHANGED <<env, loc, check, status, hist>>]_vars

\* a model missing from the table was charged at the default rates
C19_Witness ==
  \E s \in Sessions :
    /\ pc[s] = "costed"
    /\ cost[s].model = "meta-llama/llama-3-8b"
    /\ cost[s].input_tokens > 0
    /\ cost[s].output_tokens > 0
    /\ cost[s].cost = CalculateCost("openai/gpt-3.5-turbo", cost[s].input_tokens,
                                     cost[s].output_tokens)

\* C20: a named action that is not, letter for letter, one of the tool names
\* runs no tool: the step leaves the list of valid names as the observation,
\* counts one iteration and goes back to awaiting the model.
C20_UnknownTool ==
  [][\A s \in Sessions :
       (/\ pc[s] = "executing_tool"
        /\ ActionName(resp[s]) \notin ToolNames
        /\ pc'[s] # "executing_tool") =>
         /\ pc'[s] = "awaiting_model"
         /\ observation'[s] = InvalidTool
         /\ iterations'[s] = iterations[s] + 1
         /\ tool_raised'[s] = tool_raised[s]
         /\ result'[s] = result[s]
         /\ LoadData' = LoadData]_vars

\* a name differing from a tool name only in case was answered with the
\* list of valid names
C20_Witness ==
  \E s \in Sessions :
    /\ pc[s] = "awaiting_model"
    /\ resp[s] = "unknown_tool"
    /\ ActionName(resp[s]) = "Get_Portfolio_Summary"
    /\ observation[s] = InvalidTool
    /\ iterations[s] = 1

C22_MissingStoreIsEmpty ==
  /\ [](~exists => (GetTotalSpent = 0 /\ GetDailySpent = 0))
  /\ [][\A s \in Sessions :
         /\ (~exists /\ pc[s] = "idle" /\ pc'[s] = "checked") =>
              /\ check'[s].total = 0
              /\ check'[s].daily = 0
              /\ check'[s].allowed <=>
                   (check'[s].e <= budget_limit /\ check'[s].e <= daily_limit)
         /\ (~exists /\ pc[s] = "idle" /\ pc'[s] = "status") =>
              /\ status'[s].total_spent = 0
              /\ status'[s].daily_spent = 0
              /\ status'[s].status = "OK"
         /\ (~exists /\ pc[s] = "idle" /\ pc'[s] = "history") =>
              history'[s] = <<>>
         /\ (~exists /\ pc[s] \in {"new", "idle"} /\ pc'[s] \notin {"new", "idle"}) =>
              pc'[s] \in {"init_file", "checked", "status", "history"}
         /\ (pc[s] = "init_file" /\ pc'[s] = "idle") =>
              (exists' /\ LoadData' = IF exists THEN LoadData ELSE <<>>)
         /\ (exists /\ exists') => LoadData' = LoadData]_vars

\* the file was removed and the status was read as that of an empty ledger
C22_Witness ==
  \E s \in Sessions :
    /\ ~exists
    /\ pc[s] = "status"
    /\ status[s].total_spent = 0
    /\ status[s].total_remaining = budget_limit
    /\ budget_limit > 0

\* C23: with a required setting missing at start-up the process reports it
\* and exits at once: no tracker is built, the ledger file is neither
\* created nor read, and no query or model call is started; the check of the
\* key inside a query is never the one that reports it.
C23_ConfigErrorFirst ==
  /\ [](\A s \in Sessions :
          result[s] # "ValueError: OPENROUTER_API_KEY not configured")
  /\ [](\A s \in Sessions : credentials # Credentials =>
          /\ pc[s] \in {"main", "exited"}
          /\ pc[s] = "exited" => result[s] \in ConfigErrors
          /\ model_calls[s] = 0
          /\ writes[s] = 0
          /\ check[s] = NoCheck
          /\ ledger = <<>>)
  /\ [][credentials # Credentials => UNCHANGED <<exists, ledger, appended>>]_vars

\* only the OpenRouter key was missing: the process has exited with that
\* error and usage.json was not created
C23_Witness ==
  \E s \in Sessions :
    /\ credentials = Credentials \ {"OPENROUTER_API_KEY"}
    /\ pc[s] = "exited"
    /\ result[s] = "Error: OpenRouter API key not configured!"
    /\ ~exists

\* C24: a Position built from platform, symbol, currency, quantity and
\* average_price with no value is accepted and its total_value is
\* quantity x average_price.
C24_PositionWithoutValue ==
  (/\ built.kwargs.keys = {"quantity", "average_price"}
   /\ built.kwargs.platform = "Lulo" /\ built.kwargs.symbol = "VOO"
   /\ built.kwargs.currency \in {"COP", "USD"}
   /\ built.kwargs.quantity > 0 /\ built.kwargs.average_price > 0)
  => /\ built.ok
     /\ built.total_value = built.kwargs.quantity * built.kwargs.average_price

\* C25: no model call of a query is started while the ledger, with the
\* records earlier calls of the same query appended, makes can_make_request
\* reject: the budget is checked again before each model call.
C25_EveryCallGated ==
  [][\A s \in Sessions :
       model_calls'[s] > model_calls[s] =>
         CanMakeRequest(GetTotalSpent, GetDailySpent, DefaultEstimate).allowed]_vars

\* C27: the input tokens recorded for a call whose response has no
\* prompt_tokens are the estimate of that call's prompts alone, with nothing
\* left over from earlier calls of the same callback.
C27_EstimateOfThisCall ==
  [][\A s \in Sessions :
       (pc[s] = "in_call" /\ pc'[s] = "saving") =>
         \/ rec'[s].input_tokens \in PromptTokens
         \/ rec'[s].input_tokens \in {(w * TenthsPerWord) \div 10 : w \in Words}]_vars

\* C26: after a record_usage whose write failed or was cut short, the file
\* is readable and holds the records it held before, or those and the new
\* record.
C26_OldRecordsSurvive ==
  \A s \in Sessions :
    pc[s] = "crashed" =>
      /\ ~torn
      /\ LoadData \in {data[s], Append(data[s], rec[s])}

\* C28: every record of the ledger has cost >= 0 and get_total_spent() never
\* decreases; once can_make_request(e) rejects because of the lifetime
\* limit, it rejects every e2 >= e for the same reason from then on.
C28_TotalNeverDecreases ==
  /\ [](\A i \in 1..Len(LoadData) : LoadData[i].cost >= 0)
  /\ [][/\ GetTotalSpent' >= GetTotalSpent
         /\ \A e, e2 \in Estimates :
              (/\ e2 >= e
               /\ CanMakeRequest(GetTotalSpent, GetDailySpent, e).reason =
                    "Budget limit reached")
              => (CanMakeRequest(GetTotalSpent, GetDailySpent, e2).reason)' =
                    "Budget limit reached"]_vars

\* two records were appended and a request is then rejected by the lifetime
\* limit
C28_Witness ==
  \E s \in Sessions :
    /\ pc[s] = "checked"
    /\ Len(appended) >= 2
    /\ check[s].reason = "Budget limit reached"
    /\ check[s].total = GetTotalSpent
    /\ GetTotalSpent > 0

\* C29 as stated: when the date advances and no record is appended, the
\* records of earlier dates count nothing towards the day, the lifetime
\* total is unchanged, and every request that was rejected by the daily
\* limit alone is allowed if the lifetime check passes.
C29_DailyResetAnyRequest ==
  [][(today' > today /\ LoadData' = LoadData) =>
       /\ (\A i \in 1..Len(LoadData) : DateOf(LoadData[i].timestamp) < today')
            => GetDailySpent' = 0
       /\ GetTotalSpent' = GetTotalSpent
       /\ \A e \in ApiEstimates :
            (/\ CanMakeRequest(GetTotalSpent, GetDailySpent, e).reason =
                  "Daily limit reached"
             /\ GetTotalSpent + e <= budget_limit)
            => (CanMakeRequest(GetTotalSpent, GetDailySpent, e).allowed)']_vars

\* C29, amended: the same, for the requests whose estimate alone is within
\* the daily limit.
C29_DailyReset ==
  [][(today' > today /\ LoadData' = LoadData) =>
       /\ (\A i \in 1..Len(LoadData) : DateOf(LoadData[i].timestamp) < today')
            => GetDailySpent' = 0
       /\ GetTotalSpent' = GetTotalSpent
       /\ \A e \in ApiEstimates :
            (/\ CanMakeRequest(GetTotalSpent, GetDailySpent, e).reason =
                  "Daily limit reached"
             /\ GetTotalSpent + e <= budget_limit
             /\ e <= daily_limit)
            => (CanMakeRequest(GetTotalSpent, GetDailySpent, e).allowed)']_vars

\* a request is allowed today that the records of an earlier day, still in
\* the ledger, made the daily limit reject on that day
C29_Witness ==
  \E s \in Sessions :
    /\ pc[s] = "checked"
    /\ check[s].allowed
    /\ check[s].day = today
    /\ check[s].total > 0
    /\ check[s].daily = 0
    /\ \E d \in 0..(today - 1) :
         DailyCost(LoadData, d) + check[s].e > daily_limit

\* C30: for every budget_limit, 0 included: whenever the lifetime total is
\* at least the limit the reported status is CRITICAL, and whenever the
\* status is OK a request of estimated cost 0 passes the lifetime check.
C30_StatusAgreesWithLimit ==
  \A s \in Sessions : pc[s] = "status" =>
    /\ status[s].total_spent >= budget_limit => status[s].status = "CRITICAL"
    /\ status[s].status = "OK" =>
         CanMakeRequest(GetTotalSpent, GetDailySpent, 0).reason #
           "Budget limit reached"
====
